---- MODULE Spec2Model ----
(***************************************************************************)
(* Cell activation model (src/cell.py): a PetriDish owns a non-toroidal    *)
(* grid with one cell per position and a scheduler that steps the cells    *)
(* one after the other in the order of their addition.  Producers push     *)
(* energy to their Moore neighbours, Consumers drain it.                   *)
(*                                                                         *)
(* Probabilities are modelled in hundredths: r.random() yields a value of  *)
(* 0..99 (the half-open interval [0, 1)), 0.3 is 30 and 0.5 is 50.         *)
(***************************************************************************)
EXTENDS Integers, Sequences, FiniteSets, TLC

VARIABLES
    width, height,          \* PetriDish.__init__ arguments
    proportion_producers,   \* PetriDish.__init__ argument, in hundredths
    proportion_consumers,   \* PetriDish.__init__ argument, in hundredths
    schedule,               \* BaseScheduler: the agents in the order of addition
    kind,                   \* class of the agent placed at each position
    energy,                 \* Cell.energy of the agent at each position
    activated,              \* Cell.activated
    active_turns,           \* Cell.active_turns
    idx,                    \* agents already stepped in the current pass of schedule.step()
    steps,                  \* completed PetriDish.step() calls
    nsteps,                 \* driver: number of step() calls it makes
    magnitudes,             \* random source: the values r.randint(1, 5) is sampled at
    tickStart,              \* history: energy of every cell when the current pass began
    inbox,                  \* history: transfers each cell received in the current pass
    seen,                   \* history: energy each cell read at the start of its own step
    order,                  \* history: agents stepped in the current pass, in order
    last,                   \* history: what the most recent agent step did
    streak,                 \* history: consecutive steps of each cell that ended activated
    calc                    \* an isolated call of Cell.add_energy / Cell.subtract_energy

dish == <<width, height, proportion_producers, proportion_consumers, schedule,
          kind, energy, activated, active_turns, idx, steps, nsteps, magnitudes>>

hist == <<tickStart, inbox, seen, order, last, streak>>

vars == <<dish, hist, calc>>

(***************************************************************************)
(* Program constants.                                                      *)
(***************************************************************************)
activation_odds == 50
ActivatedEnergy == 20
DefaultEnergy == 5
EnergyCap == 100
ActivationThreshold == 10
MaintenanceCost == 1
MinTransfer == 1
MaxTransfer == 5
ProducerWindow == 15
ConsumerOnset == 5

(***************************************************************************)
(* Bounds of the model.                                                    *)
(***************************************************************************)
LongRun == 17
MidRun == 10
ShortRun == 4
DenseRun == 11
SoloRun == 21
MaxSide == 4
PlacementRun == 1
BoardRun == 3
TurnsSampled == 3
RowRun == 9
SeedRun == 12
QuietRun == 52

\* values r.random() is sampled at: the ends of [0, 1) and both sides of
\* every threshold the code compares a roll with
ActivationRolls == {0, activation_odds, activation_odds + 1, 99}
TypeRolls == {0, 30, 31, 60, 61, 99}
TransferAmounts == MinTransfer..MaxTransfer

NoRoll == "no roll"
Nowhere == <<-1, -1>>
EmptyFn == [t \in {} |-> 0]

(***************************************************************************)
(* Cell                                                                    *)
(***************************************************************************)
NewCellFlatEnergy(act) ==
    [activated |-> act, active_turns |-> 0, energy |-> DefaultEnergy]

NewCell(act) ==
    [activated |-> act,
     active_turns |-> 0,
     energy |-> IF act THEN ActivatedEnergy ELSE DefaultEnergy]

AddEnergyUnclamped(e, n) == e + n

AddEnergyTestsOldValue(e, n) ==
    IF e < EnergyCap THEN e + n ELSE EnergyCap

add_energy(e, n) ==
    IF e + n < EnergyCap THEN e + n ELSE EnergyCap

subtract_energy(e, n) ==
    IF e - n >= 0 THEN e - n ELSE 0

ActivateWithoutCount(c, roll) ==
    [c EXCEPT !.activated = IF c.energy > ActivationThreshold /\ roll <= activation_odds
                            THEN TRUE ELSE c.activated]

ActivateOnAnyRoll(c, roll) ==
    LET turns == IF c.activated THEN c.active_turns + 1 ELSE c.active_turns
        act   == IF c.energy > ActivationThreshold THEN TRUE ELSE c.activated
    IN  [c EXCEPT !.active_turns = turns, !.activated = act]

activate(c, roll) ==
    LET turns == IF c.activated THEN c.active_turns + 1 ELSE c.active_turns
        act   == IF c.energy > ActivationThreshold /\ roll <= activation_odds
                 THEN TRUE ELSE c.activated
    IN  [c EXCEPT !.active_turns = turns, !.activated = act]

DeactivationBelowThreshold(c) ==
    IF c.energy < ActivationThreshold
    THEN [c EXCEPT !.activated = FALSE, !.active_turns = 0]
    ELSE c

roll_for_deactivation(c) ==
    IF c.energy <= ActivationThreshold
    THEN [c EXCEPT !.activated = FALSE, !.active_turns = 0]
    ELSE c

MaintenanceDecaysLast(c, roll) ==
    LET d == roll_for_deactivation(activate(c, roll))
    IN  [d EXCEPT !.energy = subtract_energy(d.energy, MaintenanceCost)]

MaintenanceWithoutDecay(c, roll) ==
    roll_for_deactivation(activate(c, roll))

step_maintenance(c, roll) ==
    LET a == activate(c, roll)
        d == [a EXCEPT !.energy = subtract_energy(a.energy, MaintenanceCost)]
    IN  roll_for_deactivation(d)

ProducerSendsAlways(c) == TRUE

ProducerSendsBelowWindow(c) == c.activated /\ c.active_turns < ProducerWindow

ConsumerDrainsAtOnce(c) == c.activated

ConsumerDrainsFromOnset(c) == c.activated /\ c.active_turns >= ConsumerOnset

\* the guards of the two transfer loops
ProducerSends(c) == c.activated /\ c.active_turns <= ProducerWindow

ConsumerDrains(c) == c.activated /\ c.active_turns > ConsumerOnset

(***************************************************************************)
(* Grid and scheduler                                                      *)
(***************************************************************************)
Positions(w, h) == (0..(w - 1)) \X (0..(h - 1))

NeighborsOnTorus(p, w, h) ==
    {q \in Positions(w, h) :
        /\ q # p
        /\ (q[1] - p[1]) % w \in {w - 1, 0, 1}
        /\ (q[2] - p[2]) % h \in {h - 1, 0, 1}}

NeighborsWithCenter(p, w, h) ==
    {q \in Positions(w, h) :
        /\ q[1] - p[1] \in {-1, 0, 1}
        /\ q[2] - p[2] \in {-1, 0, 1}}

\* grid.neighbor_iter(pos, moore = True) on SingleGrid(width, height, torus = False)
Neighbors(p, w, h) ==
    {q \in Positions(w, h) :
        /\ q # p
        /\ q[1] - p[1] \in {-1, 0, 1}
        /\ q[2] - p[2] \in {-1, 0, 1}}

center_coords(w, h) == <<w \div 2, h \div 2>>

\* for y in range(height): the positions of column x, in the order visited
InnerLoop(x, h) == [j \in 1..h |-> <<x, j - 1>>]

RECURSIVE ColumnMajorLoop(_, _, _)
ColumnMajorLoop(y, w, h) ==
    IF y >= h THEN <<>>
    ELSE [i \in 1..w |-> <<i - 1, y>>] \o ColumnMajorLoop(y + 1, w, h)

RECURSIVE OuterLoop(_, _, _)
\* for x in range(width): for y in range(height): schedule.add(agent)
OuterLoop(x, w, h) ==
    IF x >= w THEN <<>> ELSE InnerLoop(x, h) \o OuterLoop(x + 1, w, h)

AgentKindRolledAtCenter(p, roll, w, h, pp, pcn) ==
    IF roll <= pp THEN "Producer"
    ELSE IF roll <= pp + pcn THEN "Consumer"
    ELSE "Neutral"

\* the class chosen for the agent of position p from its type roll
AgentKind(p, roll, w, h, pp, pcn) ==
    IF p = center_coords(w, h) THEN "Producer"
    ELSE IF roll <= pp THEN "Producer"
    ELSE IF roll <= pp + pcn THEN "Consumer"
    ELSE "Neutral"

(***************************************************************************)
(* PetriDish.__init__                                                      *)
(***************************************************************************)
NoStep ==
    [pos |-> Nowhere, before |-> NewCell(FALSE), decayed |-> 0,
     op |-> "none", amt |-> EmptyFn]

NoCall == [op |-> "none", e |-> 0, n |-> 0, out |-> 0]

\* the dish PetriDish(w, h, pp, pcn) builds from the type rolls, with a driver
\* that will call step() n times and a random source whose transfer
\* magnitudes range over mags
Construct(w, h, pp, pcn, rolls, n, mags) ==
    LET P == Positions(w, h)
        initial_activator == center_coords(w, h)
    IN  /\ width = w
        /\ height = h
        /\ proportion_producers = pp
        /\ proportion_consumers = pcn
        /\ schedule = OuterLoop(0, w, h)
        /\ kind = [p \in P |-> AgentKind(p, rolls[p], w, h, pp, pcn)]
        /\ energy = [p \in P |-> NewCell(p = initial_activator).energy]
        /\ activated = [p \in P |-> NewCell(p = initial_activator).activated]
        /\ active_turns = [p \in P |-> NewCell(p = initial_activator).active_turns]
        /\ idx = Len(OuterLoop(0, w, h))
        /\ steps = 0
        /\ nsteps = n
        /\ magnitudes = mags
        /\ tickStart = [p \in P |-> NewCell(p = initial_activator).energy]
        /\ inbox = [p \in P |-> <<>>]
        /\ seen = [p \in P |-> NewCell(p = initial_activator).energy]
        /\ order = <<>>
        /\ last = NoStep
        /\ streak = [p \in P |-> 0]

\* two cells in a row, default proportions, every transfer magnitude
Init ==
    \E rolls \in [Positions(2, 1) -> TypeRolls] :
        /\ Construct(2, 1, 30, 30, rolls, MidRun, TransferAmounts)
        /\ calc = NoCall

\* two Producers in a row, driven past the Producer window
InitLong ==
    \E rolls \in [Positions(2, 1) -> TypeRolls] :
        /\ Construct(2, 1, 100, 0, rolls, LongRun,
                     {MinTransfer, (MinTransfer + MaxTransfer) \div 2, MaxTransfer})
        /\ calc = NoCall

\* a 2 x 3 dish, default proportions; the type roll is sampled with the same
\* value at every position
InitGrid ==
    \E r \in TypeRolls :
        /\ Construct(2, 3, 30, 30, [p \in Positions(2, 3) |-> r], ShortRun,
                     {MaxTransfer})
        /\ calc = NoCall

\* four Producers feeding each other at the highest magnitude
InitDense ==
    \E rolls \in [Positions(2, 2) -> TypeRolls] :
        /\ Construct(2, 2, 100, 0, rolls, DenseRun, {MaxTransfer})
        /\ calc = NoCall

\* the seed alone on a 1 x 1 grid, driven until its energy is used up
InitSolo ==
    \E rolls \in [Positions(1, 1) -> TypeRolls] :
        /\ Construct(1, 1, 30, 30, rolls, SoloRun, TransferAmounts)
        /\ calc = NoCall

\* the end-to-end scenario: PetriDish(5, 5, 0, 0) and one step() call; the
\* type roll is sampled with the same value at every position
InitScenario ==
    \E r \in TypeRolls :
        /\ Construct(5, 5, 0, 0, [p \in Positions(5, 5) |-> r], 1,
                     {MinTransfer, (MinTransfer + MaxTransfer) \div 2, MaxTransfer})
        /\ calc = NoCall

\* every grid of 1 x 1 up to MaxSide x MaxSide, default proportions; the type
\* roll is sampled with one value at the center and one value elsewhere
InitPlacement ==
    \E w \in 1..MaxSide, h \in 1..MaxSide, rc \in TypeRolls, r \in TypeRolls :
        /\ Construct(w, h, 30, 30,
                     [p \in Positions(w, h) |-> IF p = center_coords(w, h) THEN rc ELSE r],
                     PlacementRun, {MaxTransfer})
        /\ calc = NoCall

\* a 3 x 3 dish whose cells other than the seed are all of one class, fed at
\* the highest magnitude
InitBoard ==
    \E r \in TypeRolls :
        /\ Construct(3, 3, 30, 30, [p \in Positions(3, 3) |-> r], BoardRun,
                     {MaxTransfer})
        /\ calc = NoCall

\* three cells in a row, the seed in the middle and its two neighbours out of
\* each other's reach, fed at the highest magnitude
InitRow ==
    \E rolls \in [Positions(3, 1) -> TypeRolls] :
        /\ Construct(3, 1, 30, 30, rolls, RowRun, {MaxTransfer})
        /\ calc = NoCall

\* the seed beside cells that the proportions (0, 0.3) make Consumers or
\* Neutral cells, unless their type roll is 0: between two of them, fed and
\* drained at the highest magnitude, or beside one, at every magnitude
InitSeed ==
    \/ \E rolls \in [Positions(3, 1) -> TypeRolls] :
          /\ Construct(3, 1, 0, 30, rolls, SeedRun, {MaxTransfer})
          /\ calc = NoCall
    \/ \E rolls \in [Positions(2, 1) -> TypeRolls] :
          /\ Construct(2, 1, 0, 30, rolls, SeedRun, {MinTransfer, MaxTransfer})
          /\ calc = NoCall

\* the seed between two cells that are Consumers or Neutral cells, driven
\* until long after the seed has stopped
InitQuiet ==
    \E rolls \in [Positions(3, 1) -> TypeRolls \ {0}] :
        /\ Construct(3, 1, 0, 30, rolls, QuietRun, {MaxTransfer})
        /\ calc = NoCall

(***************************************************************************)
(* PetriDish.step                                                          *)
(***************************************************************************)
SelfCellBuffered(p) ==
    [activated |-> activated[p], active_turns |-> active_turns[p], energy |-> tickStart[p]]

\* the attributes of the stepping agent, as its methods read them
SelfCell(p) ==
    [activated |-> activated[p], active_turns |-> active_turns[p], energy |-> energy[p]]

\* t.add_energy(n) / t.subtract_energy(n) of a transfer loop, on the energy e of t
Transfer(op, e, n) ==
    IF op = "add" THEN add_energy(e, n)
    ELSE IF op = "sub" THEN subtract_energy(e, n)
    ELSE e

\* which transfer loop, if any, the step of a cell of class k runs after
\* step_maintenance has left it as c
TransferOp(k, c) ==
    IF k = "Producer" /\ ProducerSends(c) THEN "add"
    ELSE IF k = "Consumer" /\ ConsumerDrains(c) THEN "sub"
    ELSE "none"

\* r.random() is drawn in activate() only when energy > 10
RollDraws(c) ==
    IF c.energy > ActivationThreshold THEN ActivationRolls ELSE {NoRoll}

\* the driver calls PetriDish.step(): schedule.step() starts a pass over the agents
PetriDishStep ==
    /\ idx = Len(schedule)
    /\ steps < nsteps
    /\ idx' = 0
    /\ tickStart' = energy
    /\ inbox' = [p \in DOMAIN energy |-> <<>>]
    /\ seen' = energy
    /\ order' = <<>>
    /\ last' = NoStep
    /\ UNCHANGED <<width, height, proportion_producers, proportion_consumers, schedule,
                   kind, energy, activated, active_turns, steps, nsteps, magnitudes,
                   streak, calc>>

\* one iteration of the pass: agent.step() of the next agent of the schedule
AgentStep ==
    /\ idx < Len(schedule)
    /\ LET p  == schedule[idx + 1]
           c0 == SelfCell(p)
       IN  \E roll \in RollDraws(c0) :
           LET c1 == step_maintenance(c0, roll)
               op == TransferOp(kind[p], c1)
               T  == IF op = "none" THEN {} ELSE Neighbors(p, width, height)
           IN  \E amt \in [T -> magnitudes] :
               /\ LET own == [energy EXCEPT ![p] = c1.energy]
                  IN  energy' = [q \in DOMAIN energy |->
                                    IF q \in T THEN Transfer(op, own[q], amt[q])
                                    ELSE own[q]]
               /\ activated' = [activated EXCEPT ![p] = c1.activated]
               /\ active_turns' = [active_turns EXCEPT ![p] = c1.active_turns]
               /\ inbox' = [q \in DOMAIN inbox |->
                               IF q \in T
                               THEN Append(inbox[q], [from |-> p, op |-> op, n |-> amt[q]])
                               ELSE inbox[q]]
               /\ seen' = [seen EXCEPT ![p] = c0.energy]
               /\ order' = Append(order, p)
               /\ last' = [pos |-> p, before |-> c0,
                           decayed |-> subtract_energy(c0.energy, MaintenanceCost),
                           op |-> op, amt |-> amt]
               /\ streak' = [streak EXCEPT ![p] = IF c1.activated THEN @ + 1 ELSE 0]
    /\ idx' = idx + 1
    /\ steps' = IF idx + 1 = Len(schedule) THEN steps + 1 ELSE steps
    /\ UNCHANGED <<width, height, proportion_producers, proportion_consumers, schedule,
                   kind, nsteps, magnitudes, tickStart, calc>>

Next == PetriDishStep \/ AgentStep

Spec == Init /\ [][Next]_vars

SpecLong == InitLong /\ [][Next]_vars

SpecGrid == InitGrid /\ [][Next]_vars

SpecDense == InitDense /\ [][Next]_vars

SpecScenario == InitScenario /\ [][Next]_vars

SpecPlacement == InitPlacement /\ [][Next]_vars

SpecBoard == InitBoard /\ [][Next]_vars

SpecRow == InitRow /\ [][Next]_vars

SpecSeed == InitSeed /\ [][Next]_vars

SpecQuiet == InitQuiet /\ [][Next]_vars

(***************************************************************************)
(* Cell.add_energy and Cell.subtract_energy called on their own, on every  *)
(* energy of the range and every amount of 0..100                          *)
(***************************************************************************)
InitCalc ==
    /\ \E rolls \in [Positions(1, 1) -> TypeRolls] :
          Construct(1, 1, 30, 30, rolls, 0, TransferAmounts)
    /\ \E e \in 0..EnergyCap, n \in 0..EnergyCap :
          calc = [op |-> "none", e |-> e, n |-> n, out |-> e]

CallAddEnergy ==
    /\ calc.op = "none"
    /\ calc' = [calc EXCEPT !.op = "add", !.out = add_energy(calc.e, calc.n)]
    /\ UNCHANGED <<dish, hist>>

CallSubtractEnergy ==
    /\ calc.op = "none"
    /\ calc' = [calc EXCEPT !.op = "sub", !.out = subtract_energy(calc.e, calc.n)]
    /\ UNCHANGED <<dish, hist>>

NextCalc == CallAddEnergy \/ CallSubtractEnergy

SpecCalc == InitCalc /\ [][NextCalc]_vars

(***************************************************************************)
(* Cell.step of one cell on its own: step_maintenance on every energy of   *)
(* the range, activated or not, with every sampled roll                    *)
(***************************************************************************)
\* the attribute values a cell can have: active_turns is 0 unless activated
CellStates ==
    {c \in [activated : BOOLEAN, active_turns : 0..TurnsSampled, energy : 0..EnergyCap] :
        ~c.activated => c.active_turns = 0}

InitCell ==
    /\ \E rolls \in [Positions(1, 1) -> TypeRolls] :
          Construct(1, 1, 30, 30, rolls, 0, TransferAmounts)
    /\ \E c \in CellStates :
          \E roll \in RollDraws(c) :
              calc = [op |-> "none", cell |-> c, roll |-> roll, out |-> c]

CallStep ==
    /\ calc.op = "none"
    /\ calc' = [calc EXCEPT !.op = "step", !.out = step_maintenance(calc.cell, calc.roll)]
    /\ UNCHANGED <<dish, hist>>

NextCell == CallStep

SpecCell == InitCell /\ [][NextCell]_vars

(***************************************************************************)
(* Properties                                                              *)
(***************************************************************************)
SpecEnergy == (Init \/ InitDense \/ InitSolo) /\ [][Next]_vars

Cells == DOMAIN energy

Center == center_coords(width, height)

PassDone == idx = Len(schedule)

\* the agents that have had their step in the current pass
Stepped == {order[i] : i \in 1..Len(order)}

Index(p) == CHOOSE i \in 1..Len(schedule) : schedule[i] = p

\* the transfers of this pass that q received from p
From(p, q) == {i \in 1..Len(inbox[q]) : inbox[q][i].from = p}

RECURSIVE ApplyAll(_, _)
\* energy e after the transfers ms, applied in order
ApplyAll(e, ms) ==
    IF ms = <<>> THEN e
    ELSE ApplyAll(Transfer(Head(ms).op, e, Head(ms).n), Tail(ms))

\* what q received in this pass from agents stepped before it / after it
Earlier(q) ==
    LET Test(m) == Index(m.from) < Index(q) IN SelectSeq(inbox[q], Test)

Later(q) ==
    LET Test(m) == Index(m.from) > Index(q) IN SelectSeq(inbox[q], Test)

\* C1: in every reachable state, between two cells' steps included, every
\* cell's energy is an integer of 0..100.
C1_EnergyBounds ==
    \A p \in Cells : energy[p] \in 0..EnergyCap

\* a cell at the cap right after a Producer's add_energy on it
C1_Witness ==
    /\ last.op = "add"
    /\ \E q \in DOMAIN last.amt : energy[q] = EnergyCap

ScenarioDone ==
    /\ width = 5
    /\ height = 5
    /\ proportion_producers = 0
    /\ proportion_consumers = 0
    /\ steps = 1
    /\ PassDone

\* C2 as stated: after the one step() of the 5x5 scenario each of the 8
\* neighbours of the center has energy 6..10.
C2_Original ==
    ScenarioDone =>
        \A q \in Neighbors(<<2, 2>>, 5, 5) : energy[q] \in 6..10

\* C2 as amended: after the one step() of the 5x5 scenario each of the 8
\* neighbours of the center has energy 5..9: the transfer of 1..5 and the
\* neighbour's own maintenance decay of 1 in the same tick.
C2_Amended ==
    ScenarioDone =>
        /\ Cardinality(Neighbors(<<2, 2>>, 5, 5)) = 8
        /\ \A q \in Neighbors(<<2, 2>>, 5, 5) :
              /\ energy[q] \in 5..9
              /\ Len(inbox[q]) = 1
              /\ energy[q] = DefaultEnergy + inbox[q][1].n - MaintenanceCost

\* both ends of the range, one on a neighbour stepped before the center and
\* one on a neighbour stepped after it
C2_Witness ==
    /\ ScenarioDone
    /\ energy[<<1, 1>>] = 5
    /\ energy[<<3, 3>>] = 9

\* C3: after the one step() of the 5x5 scenario the center Producer has
\* active_turns = 1, energy = 19 and activated = true.
C3_CenterAfterOneStep ==
    ScenarioDone =>
        /\ kind[<<2, 2>>] = "Producer"
        /\ active_turns[<<2, 2>>] = 1
        /\ energy[<<2, 2>>] = 19
        /\ activated[<<2, 2>>]

C3_Witness ==
    /\ ScenarioDone
    /\ Center = <<2, 2>>
    /\ seen[Center] = ActivatedEnergy
    /\ active_turns[Center] = 1
    /\ \A q \in Neighbors(Center, width, height) : From(Center, q) # {}

\* C4: each pass steps every cell exactly once, one after the other, in the
\* order (0,0), (0,1), .., (0,height-1), (1,0), .., (width-1,height-1), in
\* every tick.
C4_InsertionOrder ==
    /\ \A i \in 1..Len(order) : order[i] = <<(i - 1) \div height, (i - 1) % height>>
    /\ idx < Len(schedule) => Len(order) = idx
    /\ (PassDone /\ steps > 0) => Len(order) = width * height
    /\ Len(schedule) = width * height

\* the third pass, half way through a grid with more than one row and column
C4_Witness ==
    /\ width = 2
    /\ height = 3
    /\ steps = 2
    /\ order = <<(<<0, 0>>), (<<0, 1>>), (<<0, 2>>), (<<1, 0>>)>>

\* C5: the pass is not double-buffered. The energy a cell reads in its own
\* step is its energy at the start of the pass with the transfers of all the
\* agents stepped before it in this pass applied, and its activation and
\* deactivation checks are made on that value; the transfers of the agents
\* stepped after it land on the result of its step.
C5_NotDoubleBuffered ==
    \A q \in Stepped :
        /\ seen[q] = ApplyAll(tickStart[q], Earlier(q))
        /\ Earlier(q) \o Later(q) = inbox[q]
        /\ energy[q] = ApplyAll(subtract_energy(seen[q], MaintenanceCost), Later(q))
        /\ activated[q] => seen[q] - MaintenanceCost > ActivationThreshold
        /\ (activated[q] /\ active_turns[q] = 0) => seen[q] > ActivationThreshold

\* a cell still activated after its step only thanks to a transfer made
\* earlier in the same pass
C5_Witness ==
    \E q \in Stepped :
        /\ Earlier(q) # <<>>
        /\ activated[q]
        /\ tickStart[q] - MaintenanceCost <= ActivationThreshold

\* C6: a cell whose energy is <= 10 after the maintenance subtraction of its
\* step ends that step with activated = false and active_turns = 0.
C6_DeactivationReset ==
    (last.pos # Nowhere /\ last.decayed <= ActivationThreshold) =>
        /\ ~activated[last.pos]
        /\ active_turns[last.pos] = 0
        /\ energy[last.pos] = last.decayed

\* a cell that was activated, with turns counted, deactivated by its step
C6_Witness ==
    /\ last.pos # Nowhere
    /\ last.before.activated
    /\ last.before.active_turns > 0
    /\ last.decayed = ActivationThreshold
    /\ ~activated[last.pos]

\* the step just made called op exactly once on each Moore neighbour, with an
\* amount of 1..5
CalledOnEachNeighbor(op) ==
    LET p == last.pos
    IN  /\ last.op = op
        /\ DOMAIN last.amt = Neighbors(p, width, height)
        /\ \A q \in Neighbors(p, width, height) :
              /\ last.amt[q] \in MinTransfer..MaxTransfer
              /\ Cardinality(From(p, q)) = 1
              /\ \A i \in From(p, q) : inbox[q][i].op = op /\ inbox[q][i].n = last.amt[q]

CalledOnNoNeighbor ==
    /\ last.op = "none"
    /\ DOMAIN last.amt = {}
    /\ \A q \in Cells : From(last.pos, q) = {}

\* C7: a Producer that is activated with active_turns = 15 when its step
\* tests the guard calls add_energy once on each neighbour, one with
\* active_turns = 16 or more on none, and a Producer that entered its step
\* activated with active_turns >= 15 sends nothing in it.
C7_ProducerWindow ==
    (last.pos # Nowhere /\ kind[last.pos] = "Producer") =>
        /\ (activated[last.pos] /\ active_turns[last.pos] = ProducerWindow)
              => CalledOnEachNeighbor("add")
        /\ (activated[last.pos] /\ active_turns[last.pos] > ProducerWindow)
              => CalledOnNoNeighbor
        /\ (last.before.activated /\ last.before.active_turns >= ProducerWindow)
              => CalledOnNoNeighbor

\* a Producer still activated in its 16th active turn, after having sent in
\* its 15th
C7_Witness ==
    /\ last.pos # Nowhere
    /\ kind[last.pos] = "Producer"
    /\ activated[last.pos]
    /\ active_turns[last.pos] = ProducerWindow + 1
    /\ Neighbors(last.pos, width, height) # {}
    /\ CalledOnNoNeighbor

Min(a, b) == IF a < b THEN a ELSE b

Max(a, b) == IF a > b THEN a ELSE b

\* C9: add_energy(n) leaves min(100, e + n) and subtract_energy(n) leaves
\* max(0, e - n), for every e and n of 0..100.
C9_Saturating ==
    /\ calc.op = "add" => calc.out = Min(EnergyCap, calc.e + calc.n)
    /\ calc.op = "sub" => calc.out = Max(0, calc.e - calc.n)

\* 98 + 5 gives 100
C9_Witness ==
    /\ calc.op = "add"
    /\ calc.e = 98
    /\ calc.n = 5
    /\ calc.out = 100

\* the dish as PetriDish.__init__ left it, before the first step() call
Constructed == steps = 0 /\ PassDone

C11_OnePerPosition ==
    /\ DOMAIN kind = Positions(width, height)
    /\ DOMAIN energy = Positions(width, height)
    /\ DOMAIN activated = Positions(width, height)
    /\ DOMAIN active_turns = Positions(width, height)
    /\ Len(schedule) = width * height
    /\ \A p \in Positions(width, height) :
          Cardinality({i \in 1..Len(schedule) : schedule[i] = p}) = 1
    /\ <<width \div 2, height \div 2>> \in Positions(width, height)
    /\ kind[<<width \div 2, height \div 2>>] = "Producer"
    /\ Constructed =>
          \A p \in Positions(width, height) :
              activated[p] <=> p = <<width \div 2, height \div 2>>

\* C11: on every grid of at least 1 x 1, in every reachable state, each
\* position holds exactly one cell, each cell is exactly once in the
\* scheduler sequence, the cell at (floor(w/2), floor(h/2)) is a Producer and
\* is the only cell constructed activated, and no step changes the grid's
\* size, a cell's position in the schedule or a cell's kind.
C11_Placement ==
    /\ []C11_OnePerPosition
    /\ [][/\ kind' = kind
          /\ schedule' = schedule
          /\ width' = width
          /\ height' = height]_vars

\* a 3 x 2 dish after a whole pass, the seed being the only cell that is not
\* Neutral
C11_Witness ==
    /\ width = 3
    /\ height = 2
    /\ steps = 1
    /\ PassDone
    /\ \A p \in Cells : kind[p] = "Producer" <=> p = <<1, 1>>
    /\ \A p \in Cells : kind[p] = "Neutral" <=> p # <<1, 1>>

\* C12: a dish constructed with proportion_producers = 0 and
\* proportion_consumers = 0 holds only Neutral cells apart from the center
\* Producer, for every value of the type roll, 0 included.
C12_OnlyNeutral ==
    (proportion_producers = 0 /\ proportion_consumers = 0) =>
        \A p \in Cells : p # Center => kind[p] = "Neutral"

\* the 8 positions around p, on or off the grid
Surrounding(p) ==
    {<<p[1] + dx, p[2] + dy>> : dx \in {-1, 0, 1}, dy \in {-1, 0, 1}} \ {p}

InBounds(q) == q[1] \in 0..(width - 1) /\ q[2] \in 0..(height - 1)

\* the number of grid borders p lies on: 2 at a corner, 1 on an edge
Borders(p) ==
    (IF p[1] \in {0, width - 1} THEN 1 ELSE 0) + (IF p[2] \in {0, height - 1} THEN 1 ELSE 0)

C14_CountsActivatedTicks ==
    /\ \A p \in Cells : active_turns[p] >= 0
    /\ \A p \in Cells : ~activated[p] => active_turns[p] = 0
    /\ (last.pos # Nowhere /\ last.before.activated /\ activated[last.pos]) =>
          active_turns[last.pos] = last.before.active_turns + 1
    /\ \A p \in Cells : activated[p] => active_turns[p] = streak[p]

Stepping == schedule[idx + 1]

\* C16: the step of a cell changes, besides that cell's own energy,
\* activated and active_turns, only the energy of its Moore neighbours and
\* only when the cell is a Producer or a Consumer: never another cell's
\* activated or active_turns, never the energy of a cell out of its
\* neighbourhood; and the transfers leave the sender's own energy as its
\* maintenance decay left it.
C16_Frame ==
    [][idx < Len(schedule) =>
        /\ \A q \in Cells \ {Stepping} :
              /\ activated'[q] = activated[q]
              /\ active_turns'[q] = active_turns[q]
              /\ (kind[Stepping] = "Neutral"
                    \/ ~(q \in Surrounding(Stepping) /\ InBounds(q)))
                    => energy'[q] = energy[q]
        /\ energy'[Stepping] = subtract_energy(energy[Stepping], MaintenanceCost)
        /\ kind' = kind
        /\ schedule' = schedule]_vars

\* a Consumer at one end of a row of three has just drained the seed beside
\* it, the cell at the other end having something to lose
C16_Witness ==
    /\ width = 3
    /\ last.pos = <<0, 0>>
    /\ last.op = "sub"
    /\ DOMAIN last.amt = {<<1, 0>>}
    /\ energy[<<1, 0>>] = tickStart[<<1, 0>>] - last.amt[<<1, 0>>]
    /\ energy[<<2, 0>>] = tickStart[<<2, 0>>]
    /\ energy[<<2, 0>>] > 0
    /\ energy[<<0, 0>>] = last.decayed

\* C17: right after construction the seed at the center has energy 20,
\* activated = true and active_turns = 0, and every other cell, Neutral,
\* Producer or Consumer, has energy 5, activated = false and active_turns = 0.
C17_InitialCells ==
    Constructed =>
        \A p \in Cells :
            IF p = <<width \div 2, height \div 2>>
            THEN energy[p] = 20 /\ activated[p] /\ active_turns[p] = 0
            ELSE energy[p] = 5 /\ ~activated[p] /\ active_turns[p] = 0

\* a constructed 4 x 3 dish whose cells other than the seed are Producers
C17_Witness ==
    /\ Constructed
    /\ width = 4
    /\ height = 3
    /\ \A p \in Cells : kind[p] = "Producer"
    /\ energy[<<2, 1>>] = ActivatedEnergy
    /\ energy[<<0, 0>>] = DefaultEnergy

\* activated with an energy that its own deactivation check would not let pass
Overdrawn(q) == activated[q] /\ energy[q] <= ActivationThreshold

C18_AfterOwnStep ==
    last.pos # Nowhere =>
        /\ activated[last.pos] => energy[last.pos] >= 11
        /\ (last.before.activated /\ last.before.energy <= ActivationThreshold) =>
              /\ ~activated[last.pos]
              /\ active_turns[last.pos] = 0
              /\ CalledOnNoNeighbor
        /\ last.decayed <= ActivationThreshold => CalledOnNoNeighbor

OnlySeedProduces == \A p \in Cells : kind[p] = "Producer" => p = Center

\* the tick of the most recent agent step
Tick == IF PassDone THEN steps ELSE steps + 1

\* the seed has just made its step
SeedStepped == OnlySeedProduces /\ last.pos = Center

\* C19 as stated: when the seed is the only Producer, its energy after its
\* step of tick t is 20 - t, it transfers in exactly the ticks 1..9, its own
\* step deactivates it in tick 10, at energy 10, and it is not activated
\* afterwards.
C19_Original ==
    SeedStepped =>
        /\ energy[Center] = Max(0, ActivatedEnergy - Tick)
        /\ last.op = "add" <=> Tick <= 9
        /\ (last.before.activated /\ ~activated[Center]) <=> Tick = 10
        /\ Tick >= 10 => ~activated[Center]

\* C19 as amended: when the seed is the only Producer, its energy after its
\* step of tick t is 20 - t through tick 8 and at most 20 - t afterwards; it
\* transfers in every tick 1..8, in tick 9 only if no Consumer has drained
\* it before its step of that tick, and in no later tick; its own step
\* deactivates it in tick 9, if it was drained before that step, or else in
\* tick 10, at energy 10 or, if drained in between, less; it is never
\* activated again; and with only Neutral cells around it the claim holds as
\* stated.
C19_Amended ==
    SeedStepped =>
        /\ energy[Center] <= Max(0, ActivatedEnergy - Tick)
        /\ energy[Center] = last.decayed
        /\ Tick <= 8 =>
              /\ energy[Center] = ActivatedEnergy - Tick
              /\ last.op = "add"
              /\ activated[Center]
        /\ Tick = 9 =>
              /\ last.before.activated
              /\ IF energy[Center] = ActivatedEnergy - Tick
                 THEN last.op = "add" /\ activated[Center]
                 ELSE /\ last.op = "none"
                      /\ ~activated[Center]
                      /\ \E q \in Neighbors(Center, width, height) : kind[q] = "Consumer"
        /\ Tick = 10 =>
              /\ last.before.energy = 11 =>
                    (last.before.activated /\ energy[Center] = ActivationThreshold)
              /\ last.before.activated => last.before.energy <= 11
        /\ Tick >= 10 => (~activated[Center] /\ last.op = "none")
        /\ ~last.before.activated => ~activated[Center]
        /\ (\A p \in Cells \ {Center} : kind[p] = "Neutral") => C19_Original

\* the seed, drained by a Consumer that steps after it, deactivated by its
\* step of tick 9
C19_Witness ==
    /\ SeedStepped
    /\ width = 3
    /\ Tick = 9
    /\ kind[<<0, 0>>] = "Neutral"
    /\ kind[<<2, 0>>] = "Consumer"
    /\ last.before.activated
    /\ ~activated[Center]
    /\ last.op = "none"

Quiescent ==
    \A p \in Cells : energy[p] = 0 /\ ~activated[p] /\ active_turns[p] = 0

\* the tick by which the last energy is used up: a cell starts with at most
\* 5 besides the seed, the seed sends at most 5 a tick for the 9 ticks it
\* stays activated, and every cell decays by 1 a tick
QuietBy ==
    DefaultEnergy + (ActivatedEnergy - ActivationThreshold - MaintenanceCost) * MaxTransfer

\* C20: when the seed is the only Producer, no cell has more energy after t
\* step() calls than 50 - t, the dish is quiescent (every cell at energy 0,
\* not activated, active_turns 0) once 50 step() calls have been made, and a
\* step() made on a quiescent dish changes no cell.
C20_DiesOut ==
    /\ []((OnlySeedProduces /\ PassDone) =>
            \A p \in Cells : energy[p] <= Max(0, QuietBy - steps))
    /\ [](OnlySeedProduces /\ steps >= QuietBy => Quiescent)
    /\ [][(OnlySeedProduces /\ Quiescent) =>
            /\ energy' = energy
            /\ activated' = activated
            /\ active_turns' = active_turns
            /\ last'.op = "none"]_vars

\* a whole step() made on the quiescent dish of a seed between a Consumer and
\* a Neutral cell
C20_Witness ==
    /\ OnlySeedProduces
    /\ kind[<<0, 0>>] = "Consumer"
    /\ steps = QuietBy + 1
    /\ PassDone
    /\ Quiescent
    /\ tickStart = energy

====
